---- MODULE Spec2Model ----
(***************************************************************************)
(* Model of the repl package: the dispatch loop of Repl.Run (repl.go) and  *)
(* the History ring buffer (history.go).                                   *)
(*                                                                         *)
(* Strings are sequences of one-character strings, so that TrimSpace,      *)
(* ReadString and the writes to the output sink are computed.              *)
(* A callback supplied by the caller (hook, Prompter, Matcher, Handler)    *)
(* is an arbitrary function: each call draws its result from a small set.  *)
(***************************************************************************)
EXTENDS Integers, Sequences, FiniteSets, TLC

\* ---------------------------------------------------------------- bounds
MaxInput == 2      \* length of the input stream, in characters
MaxCmds  == 2      \* length of the command chain
MaxSize  == 4      \* largest size passed to NewHistory
MaxAppends == 4    \* number of History.Append calls
MaxCalls == 3      \* number of calls of one RegexMatcher
IntBits  == 4      \* width of int and uint, scaled down from 64

\* ------------------------------------------------------------ variables
VARIABLES
    hooks,      \* Repl.PreRun/PreRead/PostEval/PostRun: whether the hook is
                \* non-nil and the text it returns
    prompter,   \* Repl.Prompt: TRUE iff non-nil
    nCmds,      \* len(Repl.Commands)
    input,      \* Repl.Input: the characters not yet consumed
    output,     \* Repl.Output: the characters written so far
    ctxInput,   \* Repl.ctx.Input
    pc,         \* position of Run
    ci,         \* index of the command of the range loop (1-based)
    retErr,     \* the value Run returned (meaningful when pc = "done")
    lastErr,    \* the error returned by the most recent callback or read
    trace,      \* every callback invocation and line read, in order
    sink,       \* Repl.Output as a Writer: "ok", or "broken" (Write fails)
    writeFailed,\* TRUE iff a Write to Repl.Output has returned an error
    userCtx,    \* the context given to WithContext, "none" without the call
    ctxCtx,     \* Repl.ctx.ctx
    seenCtx,    \* what Context.Context() gave to the callbacks called so far
    hist,       \* the History: Values, Head, Cap
    hpc,        \* "none" before NewHistory, "ready", or "panic"
    hSize,      \* the size NewHistory was called with
    hOp,        \* the last History call: its name, argument and result
    hLog,       \* the lines appended so far, in order
    rePattern,  \* the pattern RegexMatcher was called with
    reMatcher,  \* the captured variable `matcher` of the closure
    reCompiles, \* number of regexp.Compile calls that returned a Regexp
    reLog       \* the calls of the Matcher: input and returned error

replVars == <<hooks, prompter, nCmds, input, output, ctxInput, pc, ci, retErr, lastErr, trace>>

histVars == <<hist, hpc, hSize, hOp, hLog>>

envVars == <<sink, writeFailed, userCtx, ctxCtx, seenCtx>>

regexVars == <<rePattern, reMatcher, reCompiles, reLog>>

vars == <<replVars, envVars, histVars, regexVars>>

\* --------------------------------------------------------------- errors
\* An error value: its kind and whether it is wrapped (fmt.Errorf("%w")).
\* errors.Is and errors.As look through the wrapping.
Nil == [k |-> "nil", w |-> FALSE]

ErrNoMatch == [k |-> "NoMatch", w |-> FALSE]

ErrExit == [k |-> "Exit", w |-> FALSE]

NewError == [k |-> "Rec", w |-> FALSE]

NewFatalError == [k |-> "Fatal", w |-> FALSE]

\* an error that is neither a sentinel of the package nor an Error
OtherErr == [k |-> "Other", w |-> FALSE]

EOF == [k |-> "EOF", w |-> FALSE]

Wrap(e) == [k |-> e.k, w |-> TRUE]

\* what a callback may return as its error
CallbackErrs ==
    LET base == {ErrNoMatch, ErrExit, NewError, NewFatalError, OtherErr}
    IN  {Nil} \cup base \cup {Wrap(e) : e \in base \ {OtherErr}}

\* hooks and the Prompter: the code only tests their error against nil
PlainErrs == {Nil, ErrNoMatch, ErrExit, NewError, NewFatalError, OtherErr}

ErrorsIs(err, target) == err.k = target.k

\* errors.As(err, &replErr): TRUE iff the chain holds an Error
ErrorsAs(err) == err.k \in {"Rec", "Fatal"}

\* the Error that errors.As stores in replErr
ReplErr(err) == [k |-> err.k, w |-> FALSE]

\* the Fatal flag of the Error is not looked at
Fatal_Never(replErr) == FALSE

Fatal(replErr) == replErr.k = "Fatal"

\* Error.Error(): the message, one token per error value
ErrorString(e) == IF e.w THEN <<"wrap:", e.k>> ELSE <<e.k>>

\* ------------------------------------------------------------- strings
\* the characters of the input stream
Alphabet == {"a", " ", "\n"}

IsSpace(c) == c \in {" ", "\n", "\t", "\r"}

RECURSIVE TrimLeft(_)
TrimLeft(s) ==
    IF s = <<>> THEN <<>>
    ELSE IF IsSpace(Head(s)) THEN TrimLeft(Tail(s)) ELSE s

RECURSIVE TrimRight(_)
TrimRight(s) ==
    IF s = <<>> THEN <<>>
    ELSE IF IsSpace(s[Len(s)]) THEN TrimRight(SubSeq(s, 1, Len(s) - 1)) ELSE s

TrimSpace(s) == TrimRight(TrimLeft(s))

\* index of the first delim in s, 0 if there is none
RECURSIVE IndexOf(_, _, _)
IndexOf(s, delim, i) ==
    IF i > Len(s) THEN 0
    ELSE IF s[i] = delim THEN i ELSE IndexOf(s, delim, i + 1)

\* bufio.Reader.ReadString(delim): the data up to and including the first
\* delim; without a delim, everything that is left and io.EOF
ReadString(s, delim) ==
    LET p == IndexOf(s, delim, 1)
    IN  IF p = 0
        THEN [data |-> s, rest |-> <<>>, err |-> EOF]
        ELSE [data |-> SubSeq(s, 1, p), rest |-> SubSeq(s, p + 1, Len(s)), err |-> Nil]

\* what is left at the end of the stream is returned as a line
readInput_KeepsTrailing(s) ==
    LET r == ReadString(s, "\n")
    IN  IF r.err # Nil /\ r.data = <<>>
        THEN [line |-> <<>>, rest |-> r.rest, err |-> r.err]
        ELSE [line |-> TrimSpace(r.data), rest |-> r.rest, err |-> Nil]

\* Repl.readInput
readInput(s) ==
    LET r == ReadString(s, "\n")
    IN  IF r.err # Nil
        THEN [line |-> <<>>, rest |-> r.rest, err |-> r.err]
        ELSE [line |-> TrimSpace(r.data), rest |-> r.rest, err |-> Nil]

\* Fprintln in place of Fprint
Fprint_AddsNewline(w, s) == w \o s \o <<"\n">>

\* fmt.Fprint(w, s)
Fprint(w, s) == w \o s

\* the format string without its \n
Fprintln_NoNewline(w, s) == w \o s

\* fmt.Fprintf(w, "%v\n", s)
Fprintln(w, s) == w \o s \o <<"\n">>

\* all sequences over S of length at most n
RECURSIVE SeqsUpTo(_, _)
SeqsUpTo(S, n) ==
    IF n = 0 THEN {<<>>}
    ELSE LET shorter == SeqsUpTo(S, n - 1)
         IN  shorter \cup {Append(s, c) : s \in {t \in shorter : Len(t) = n - 1}, c \in S}

\* the text a hook returns: every hook goes through runHook, so the empty
\* text is tried with one of them
HookTexts(name) == IF name = "PreRead" THEN {<<>>, <<"h">>} ELSE {<<"h">>}

PromptTexts == {<<">">>}

HandlerTexts == {<<>>, <<"o">>}

HookNames == {"PreRun", "PreRead", "PostEval", "PostRun"}

\* a Hook field: nil, or a function returning its text and, per call, an error
Hooks(name) ==
    {[set |-> FALSE, text |-> <<>>]} \cup {[set |-> TRUE, text |-> t] : t \in HookTexts(name)}

\* a recorded call: which callback, of which command, and the kind of error
\* it returned
Event(ev, c, err) == [ev |-> ev, c |-> c, k |-> err.k]

\* -------------------------------------------------------------- History
\* int arithmetic: two's complement of IntBits bits
MinInt == -(2 ^ (IntBits - 1))

MaxInt == 2 ^ (IntBits - 1) - 1

MaxUint == 2 ^ IntBits - 1

WrapInt(x) == ((x - MinInt) % (2 ^ IntBits)) + MinInt

\* int(offset) for a uint offset
IntOfUint(u) == IF u > MaxInt THEN u - 2 ^ IntBits ELSE u

Abs(x) == IF x < 0 THEN -x ELSE x

\* Go's a % b for b # 0: the remainder of the truncated division
GoRem(a, b) == IF a >= 0 THEN a % Abs(b) ELSE -((-a) % Abs(b))

HLines == {"a", "b"}

NoHistory == [Values |-> <<>>, Head |-> 0, Cap |-> 0]

NoOp == [name |-> "none", arg |-> 0, ret |-> ""]

\* make([]string, size) and the struct literal of NewHistory
NewHistory(size) == [Values |-> [i \in 1..size |-> ""], Head |-> size, Cap |-> size - 1]

\* the index History.Get reads; -1 stands for the division by zero
GetIndex(h, offset) ==
    IF h.Cap = 0 THEN -1
    ELSE GoRem(WrapInt(GoRem(WrapInt(h.Head - IntOfUint(offset)), h.Cap) + h.Cap), h.Cap)

InRange(h, i) == i >= 0 /\ i < Len(h.Values)

\* History.Get: Values[i] of Go is Values[i + 1] here
Get(h, offset) ==
    LET i == GetIndex(h, offset)
    IN  IF InRange(h, i)
        THEN [panic |-> FALSE, val |-> h.Values[i + 1]]
        ELSE [panic |-> TRUE, val |-> ""]

\* len(Values) as the modulus in place of Cap
AppendHead_LenModulus(h) ==
    IF Len(h.Values) = 0 THEN -1 ELSE GoRem(WrapInt(h.Head + 1), Len(h.Values))

\* the Head History.Append moves to; -1 stands for the division by zero
AppendHead(h) == IF h.Cap = 0 THEN -1 ELSE GoRem(WrapInt(h.Head + 1), h.Cap)

\* History.Append
HistAppend(h, s) ==
    LET i == AppendHead(h)
    IN  IF InRange(h, i)
        THEN [panic |-> FALSE, h |-> [h EXCEPT !.Head = i, !.Values[i + 1] = s]]
        ELSE [panic |-> TRUE, h |-> h]

HistInit ==
    /\ hist = NoHistory
    /\ hpc = "none"
    /\ hSize = 0
    /\ hOp = NoOp
    /\ hLog = <<>>

DoNewHistory ==
    /\ hpc = "none"
    /\ \E size \in -1..MaxSize :
          /\ hSize' = size
          /\ hOp' = [name |-> "New", arg |-> size, ret |-> ""]
          /\ IF size < 0
             THEN hpc' = "panic" /\ UNCHANGED hist
             ELSE hpc' = "ready" /\ hist' = NewHistory(size)
    /\ UNCHANGED <<hLog, replVars, envVars, regexVars>>

DoAppend ==
    /\ hpc = "ready"
    /\ Len(hLog) < MaxAppends
    /\ \E s \in HLines :
          LET r == HistAppend(hist, s)
          IN  /\ hOp' = [name |-> "Append", arg |-> 0, ret |-> s]
              /\ hLog' = Append(hLog, s)
              /\ hist' = r.h
              /\ hpc' = IF r.panic THEN "panic" ELSE "ready"
    /\ UNCHANGED <<hSize, replVars, envVars, regexVars>>

DoGet ==
    /\ hpc = "ready"
    /\ \E offset \in 0..MaxUint :
          LET r == Get(hist, offset)
          IN  /\ hOp' = [name |-> "Get", arg |-> offset, ret |-> r.val]
              /\ hpc' = IF r.panic THEN "panic" ELSE "ready"
    /\ UNCHANGED <<hist, hSize, hLog, replVars, envVars, regexVars>>

\* --------------------------------------------------------- RegexMatcher
Range(s) == {s[i] : i \in 1..Len(s)}

\* the patterns tried: literals, and one that does not compile
Patterns == {<<>>, <<"a">>, <<"a", "b">>, <<"(">>}

\* the inputs handed to the Matcher
ReInputs == SeqsUpTo({"a", "b"}, 2)

\* the nil *regexp.Regexp
NilRegexp == <<"nil">>

\* regexp.Compile for the patterns above: an unclosed parenthesis is a
\* syntax error, and Compile then returns a nil Regexp
Compile(pattern) ==
    IF "(" \in Range(pattern)
    THEN [re |-> NilRegexp, err |-> TRUE]
    ELSE [re |-> pattern, err |-> FALSE]

\* Regexp.MatchString for a literal: s contains it
MatchString(re, s) ==
    \E i \in 0..(Len(s) - Len(re)) : SubSeq(s, i + 1, i + Len(re)) = re

\* the compiled Regexp is not kept
RegexMatcher_NoMemo(pattern, matcher, s) ==
    LET c == Compile(pattern)
    IN  IF c.err
        THEN [matcher |-> c.re, compiled |-> FALSE, ret |-> NewFatalError]
        ELSE [matcher |-> NilRegexp, compiled |-> TRUE,
              ret |-> IF ~MatchString(c.re, s) THEN ErrNoMatch ELSE Nil]

\* one call of the closure RegexMatcher(pattern) returns, with the captured
\* `matcher` before the call: the value of `matcher` after it, whether
\* Compile produced a Regexp, and the returned error
RegexMatcher(pattern, matcher, s) ==
    LET c  == IF matcher = NilRegexp THEN Compile(pattern) ELSE [re |-> matcher, err |-> FALSE]
    IN  IF c.err
        THEN [matcher |-> c.re, compiled |-> FALSE, ret |-> NewFatalError]
        ELSE [matcher |-> c.re, compiled |-> matcher = NilRegexp,
              ret |-> IF ~MatchString(c.re, s) THEN ErrNoMatch ELSE Nil]

\* `var matcher *regexp.Regexp` and the closure made by RegexMatcher(pattern)
RegexInit ==
    /\ rePattern \in Patterns
    /\ reMatcher = NilRegexp
    /\ reCompiles = 0
    /\ reLog = <<>>

\* the Matcher is called with some input
CallRegexMatcher ==
    /\ Len(reLog) < MaxCalls
    /\ \E s \in ReInputs :
          LET r == RegexMatcher(rePattern, reMatcher, s)
          IN  /\ reMatcher' = r.matcher
              /\ reCompiles' = reCompiles + (IF r.compiled THEN 1 ELSE 0)
              /\ reLog' = Append(reLog, [s |-> s, ret |-> r.ret])
    /\ UNCHANGED <<rePattern, replVars, envVars, histVars>>

\* ------------------------------------------------- output sink, context
\* Write on Repl.Output returns an error
WriteErr == sink # "ok"

\* Repl.Output after a Write that would leave w2 on a working sink: a broken
\* sink takes nothing
Written(w, w2) == IF WriteErr THEN w ELSE w2

\* Context.Context()
Context(c) == c

\* New, then WithContext(userCtx) if the caller supplies a context
EnvInit ==
    /\ sink \in {"ok", "broken"}
    /\ writeFailed = FALSE
    /\ userCtx \in {"none", "c"}
    /\ ctxCtx = (IF userCtx = "none" THEN "Background" ELSE userCtx)
    /\ seenCtx = {}

\* a working sink, no call of WithContext
PlainEnv == EnvInit /\ sink = "ok" /\ userCtx = "none"

\* ----------------------------------------------------------------- Init
ReplInit ==
    /\ hooks \in {h \in [HookNames -> UNION {Hooks(n) : n \in HookNames}] :
                   \A n \in HookNames : h[n] \in Hooks(n)}
    /\ prompter \in BOOLEAN
    /\ nCmds \in 0..MaxCmds
    /\ input \in SeqsUpTo(Alphabet, MaxInput)
    /\ output = <<>>
    /\ ctxInput = <<>>
    /\ pc = "idle"
    /\ ci = 0
    /\ retErr = Nil
    /\ lastErr = Nil
    /\ trace = <<>>

Init == ReplInit /\ PlainEnv /\ HistInit /\ RegexInit /\ rePattern = <<>>

\* -------------------------------------------------------------- actions
\* `continue` of the outer loop once the chain is exhausted: the post-eval
\* hook is skipped
Continue_SkipPostEval(i) ==
    IF i < nCmds
    THEN [pc |-> "match", ci |-> i + 1]
    ELSE [pc |-> "preRead", ci |-> i]

\* `continue` in the range loop over r.Commands: the next command, or the
\* statement after the loop
Continue(i) ==
    IF i < nCmds
    THEN [pc |-> "match", ci |-> i + 1]
    ELSE [pc |-> "postEval", ci |-> i]

\* a missing `break`: the loop goes on with the next command
Break_Missing(i) == Continue(i)

\* `continue` of the outer loop in place of `break`: the post-eval hook is skipped
Break_ContinueOuter(i) == [pc |-> "preRead", ci |-> i]

\* `break`, line 323: the statement after the loop
Break(i) == [pc |-> "postEval", ci |-> i]

\* Run returning as soon as the loop has returned, without the post-run hook
ExitLoop_NoPostRun(i) == [pc |-> "done", ci |-> i]

\* `return nil` from runLoop, line 310: Run goes on at line 253
ExitLoop(i) == [pc |-> "postRun", ci |-> i]

\* Run goes on to the post-run hook after an error of runLoop
ReturnErr_RunsPostRun(i) == [pc |-> "postRun", ci |-> i]

\* a `return err` of runLoop, handed on by Run, lines 249-251
ReturnErr(i) == [pc |-> "done", ci |-> i]

\* the call of the Handler, line 308
CallHandle(i) == [pc |-> "handle", ci |-> i]

\* Repl.runHook, followed by the caller's `if err != nil { return err }`:
\* continue at `next` when the hook is nil or returns no error
runHook(name, next) ==
    IF ~hooks[name].set
    THEN /\ pc' = next
         /\ UNCHANGED <<output, retErr, lastErr, trace, writeFailed, seenCtx>>
    ELSE \E s \in {hooks[name].text}, err \in PlainErrs :
            /\ trace' = Append(trace, Event(name, 0, err))
            /\ lastErr' = err
            /\ seenCtx' = seenCtx \cup {Context(ctxCtx)}
            /\ IF err # Nil
               THEN /\ pc' = "done"
                    /\ retErr' = err
                    /\ UNCHANGED <<output, writeFailed>>
               ELSE /\ output' = IF s # <<>> THEN Written(output, Fprint(output, s)) ELSE output
                    /\ writeFailed' = (writeFailed \/ (s # <<>> /\ WriteErr))
                    /\ pc' = next
                    /\ UNCHANGED retErr

\* Run, line 241: a fresh Context
Run ==
    /\ pc = "idle"
    /\ ctxInput' = <<>>
    /\ ctxCtx' = "Background"
    /\ pc' = "preRun"
    /\ UNCHANGED <<hooks, prompter, nCmds, input, output, ci, retErr, lastErr, trace>>
    /\ UNCHANGED <<sink, writeFailed, userCtx, seenCtx, histVars, regexVars>>

PreRunHook ==
    /\ pc = "preRun"
    /\ runHook("PreRun", "preRead")
    /\ UNCHANGED <<hooks, prompter, nCmds, input, ctxInput, ci, sink, userCtx, ctxCtx, histVars, regexVars>>

PreReadHook ==
    /\ pc = "preRead"
    /\ runHook("PreRead", "prompt")
    /\ UNCHANGED <<hooks, prompter, nCmds, input, ctxInput, ci, sink, userCtx, ctxCtx, histVars, regexVars>>

\* Repl.printPrompt; calling a nil Prompter panics
printPrompt ==
    /\ pc = "prompt"
    /\ IF ~prompter
       THEN /\ pc' = "panic"
            /\ UNCHANGED <<output, retErr, lastErr, trace, writeFailed, seenCtx>>
       ELSE \E p \in PromptTexts, err \in PlainErrs :
               /\ trace' = Append(trace, Event("Prompt", 0, err))
               /\ lastErr' = err
               /\ seenCtx' = seenCtx \cup {Context(ctxCtx)}
               /\ IF err # Nil
                  THEN /\ pc' = "done"
                       /\ retErr' = err
                       /\ UNCHANGED <<output, writeFailed>>
                  ELSE /\ output' = Written(output, Fprint(output, p))
                       /\ writeFailed' = (writeFailed \/ WriteErr)
                       /\ pc' = "read"
                       /\ UNCHANGED retErr
    /\ UNCHANGED <<hooks, prompter, nCmds, input, ctxInput, ci, sink, userCtx, ctxCtx, histVars, regexVars>>

\* runLoop, lines 288-291 and the entry of the range loop
ReadInput ==
    /\ pc = "read"
    /\ LET r == readInput(input)
       IN  /\ input' = r.rest
           /\ ctxInput' = r.line
           /\ trace' = Append(trace, Event("Read", 0, r.err))
           /\ lastErr' = r.err
           /\ IF r.err # Nil
              THEN /\ pc' = "done"
                   /\ retErr' = r.err
                   /\ UNCHANGED ci
              ELSE \* the range loop starts at the first command, if any
                   /\ UNCHANGED retErr
                   /\ pc' = Continue(0).pc
                   /\ ci' = Continue(0).ci
    /\ UNCHANGED <<hooks, prompter, nCmds, output, envVars, histVars, regexVars>>

\* runLoop, lines 296-306: what the loop does with the Matcher's error
MatchResult(err) ==
    IF ErrorsIs(err, ErrNoMatch)
    THEN [act |-> "continue", ret |-> Nil, write |-> <<>>]
    ELSE IF ErrorsAs(err)
    THEN IF Fatal(ReplErr(err))
         THEN [act |-> "return", ret |-> ReplErr(err), write |-> <<>>]
         ELSE [act |-> "handle", ret |-> Nil, write |-> Fprintln(<<>>, ErrorString(ReplErr(err)))]
    ELSE IF err # Nil
    THEN [act |-> "return", ret |-> err, write |-> <<>>]
    ELSE [act |-> "handle", ret |-> Nil, write |-> <<>>]

\* runLoop, lines 309-323: what the loop does with the Handler's result
HandleResult(out, err) ==
    IF ErrorsIs(err, ErrExit)
    THEN [act |-> "exit", ret |-> Nil, write |-> <<>>]
    ELSE IF ErrorsAs(err)
    THEN IF Fatal(ReplErr(err))
         THEN [act |-> "return", ret |-> ReplErr(err), write |-> <<>>]
         ELSE [act |-> "break", ret |-> Nil, write |-> Fprintln(<<>>, ErrorString(ReplErr(err)))]
    ELSE IF err # Nil
    THEN [act |-> "return", ret |-> err, write |-> <<>>]
    ELSE IF out # <<>>
    THEN [act |-> "break", ret |-> Nil, write |-> Fprintln(<<>>, out)]
    ELSE [act |-> "break", ret |-> Nil, write |-> <<>>]

\* runLoop, lines 295-306: command.Match(r.ctx.Input)
Match ==
    /\ pc = "match"
    /\ \E err \in CallbackErrs :
          LET r == MatchResult(err)
              to == CASE r.act = "continue" -> Continue(ci)
                      [] r.act = "return" -> ReturnErr(ci)
                      [] r.act = "handle" -> CallHandle(ci)
          IN  /\ trace' = Append(trace, Event("Match", ci, err))
              /\ lastErr' = err
              /\ output' = IF r.write # <<>> THEN Written(output, output \o r.write) ELSE output
              /\ writeFailed' = (writeFailed \/ (r.write # <<>> /\ WriteErr))
              /\ UNCHANGED seenCtx
              /\ retErr' = r.ret
              /\ pc' = to.pc
              /\ ci' = to.ci
    /\ UNCHANGED <<hooks, prompter, nCmds, input, ctxInput, sink, userCtx, ctxCtx, histVars, regexVars>>

\* runLoop, lines 308-323: command.Handle(r.ctx)
Handle ==
    /\ pc = "handle"
    /\ \E out \in HandlerTexts, err \in CallbackErrs :
          LET r == HandleResult(out, err)
              to == CASE r.act = "exit" -> ExitLoop(ci)
                      [] r.act = "return" -> ReturnErr(ci)
                      [] r.act = "break" -> Break(ci)
          IN  /\ trace' = Append(trace, Event("Handle", ci, err))
              /\ lastErr' = err
              /\ seenCtx' = seenCtx \cup {Context(ctxCtx)}
              /\ output' = IF r.write # <<>> THEN Written(output, output \o r.write) ELSE output
              /\ writeFailed' = (writeFailed \/ (r.write # <<>> /\ WriteErr))
              /\ retErr' = r.ret
              /\ pc' = to.pc
              /\ ci' = to.ci
    /\ UNCHANGED <<hooks, prompter, nCmds, input, ctxInput, sink, userCtx, ctxCtx, histVars, regexVars>>

PostEvalHook ==
    /\ pc = "postEval"
    /\ runHook("PostEval", "preRead")
    /\ UNCHANGED <<hooks, prompter, nCmds, input, ctxInput, ci, sink, userCtx, ctxCtx, histVars, regexVars>>

\* Run, lines 253-258: the post-run hook, then return nil
PostRunHook ==
    /\ pc = "postRun"
    /\ runHook("PostRun", "done")
    /\ UNCHANGED <<hooks, prompter, nCmds, input, ctxInput, ci, sink, userCtx, ctxCtx, histVars, regexVars>>

Next ==
    \/ Run
    \/ PreRunHook
    \/ PreReadHook
    \/ printPrompt
    \/ ReadInput
    \/ Match
    \/ Handle
    \/ PostEvalHook
    \/ PostRunHook

Spec == Init /\ [][Next]_vars

\* Run is not suspended for ever: every callback returns and the read of a
\* finite stream returns a line or the end of the stream
\* the hooks are all installed or all nil
HooksAllOrNone ==
    /\ \A n, m \in HookNames : hooks[n].set = hooks[m].set
    /\ \A n \in HookNames : hooks[n].set => hooks[n].text = <<"h">>

LInit == Init /\ HooksAllOrNone

LiveSpec == LInit /\ [][Next]_vars /\ WF_vars(Next)

\* the History on its own: no Repl is run
HInit ==
    /\ ReplInit
    /\ \A n \in HookNames : ~hooks[n].set
    /\ ~prompter
    /\ nCmds = 0
    /\ input = <<>>
    /\ PlainEnv
    /\ HistInit
    /\ RegexInit
    /\ rePattern = <<>>

HNext ==
    \/ DoNewHistory
    \/ DoAppend
    \/ DoGet

\* Run on an output sink that may fail
WInit ==
    /\ ReplInit
    /\ HooksAllOrNone
    /\ EnvInit
    /\ userCtx = "none"
    /\ HistInit
    /\ RegexInit
    /\ rePattern = <<>>

WSpec == WInit /\ [][Next]_vars

\* Run after New, with or without WithContext
CInit ==
    /\ ReplInit
    /\ HooksAllOrNone
    /\ EnvInit
    /\ sink = "ok"
    /\ HistInit
    /\ RegexInit
    /\ rePattern = <<>>

CSpec == CInit /\ [][Next]_vars

HSpec == HInit /\ [][HNext]_vars

\* one RegexMatcher on its own: no Repl is run, no History is made
RInit ==
    /\ ReplInit
    /\ \A n \in HookNames : ~hooks[n].set
    /\ ~prompter
    /\ nCmds = 0
    /\ input = <<>>
    /\ PlainEnv
    /\ HistInit
    /\ RegexInit

RNext == CallRegexMatcher

RSpec == RInit /\ [][RNext]_vars

\* ------------------------------------------------------------ properties
Last(s) == s[Len(s)]

IsDispatch(e) == e.ev \in {"Match", "Handle"}

IsHook(e) == e.ev \in HookNames

ReadsOK == {i \in 1..Len(trace) : trace[i].ev = "Read" /\ trace[i].k = "nil"}

\* the first callback of a loop iteration, and the one that follows the
\* dispatch of a line
IterStart == IF hooks["PreRead"].set THEN "PreRead" ELSE "Prompt"

AfterDispatch == IF hooks["PostEval"].set THEN "PostEval" ELSE IterStart

\* where Run can be while the dispatch of a line is the last recorded call:
\* at the post-eval hook, or past the hooks that are nil
DispatchDonePcs ==
    {"postEval"}
       \cup (IF hooks["PostEval"].set THEN {} ELSE {"preRead"})
       \cup (IF hooks["PostEval"].set \/ hooks["PreRead"].set THEN {} ELSE {"prompt"})

\* C1: the commands are tried in declared order (command 1 right after the
\* read, command c+1 right after command c said no-match); a Handler is the
\* Handler of the command whose Matcher ran just before it; after a Matcher
\* that matched comes its own Handler; after a Handler, whatever it returned,
\* no Matcher or Handler runs for that line, so at most one Handler per line.
C1_FirstMatchWins ==
    /\ \A i \in 1..Len(trace) :
          LET e == trace[i]
          IN  /\ e.ev = "Match" =>
                    /\ i > 1
                    /\ IF e.c = 1
                       THEN trace[i - 1].ev = "Read"
                       ELSE /\ trace[i - 1].ev = "Match"
                            /\ trace[i - 1].c = e.c - 1
                            /\ trace[i - 1].k = "NoMatch"
              /\ (e.ev = "Match" /\ e.k = "nil" /\ i < Len(trace)) =>
                    /\ trace[i + 1].ev = "Handle"
                    /\ trace[i + 1].c = e.c
              /\ e.ev = "Handle" =>
                    /\ i > 1
                    /\ trace[i - 1].ev = "Match"
                    /\ trace[i - 1].c = e.c
                    /\ i < Len(trace) => ~IsDispatch(trace[i + 1])
    /\ \A i, j \in 1..Len(trace) :
          (i < j /\ trace[i].ev = "Handle" /\ trace[j].ev = "Handle")
             => \E r \in ReadsOK : i < r /\ r < j

\* command 1 of 2 matched and its Handler has run and broken out of the loop
C1_Witness ==
    /\ nCmds = 2
    /\ pc = "postEval"
    /\ Len(trace) >= 2
    /\ Last(trace).ev = "Handle" /\ Last(trace).c = 1
    /\ trace[Len(trace) - 1] = [ev |-> "Match", c |-> 1, k |-> "nil"]

\* which callback may directly follow which
Follows(a, b) ==
    CASE a.ev = "PreRun" -> b.ev = IterStart
      [] a.ev = "PreRead" -> b.ev = "Prompt"
      [] a.ev = "Prompt" -> b.ev = "Read"
      [] a.ev = "Read" -> IF nCmds > 0 THEN b.ev = "Match" ELSE b.ev = AfterDispatch
      [] a.ev = "Match" -> IsDispatch(b) \/ (a.c = nCmds /\ b.ev = AfterDispatch)
      [] a.ev = "Handle" -> IF a.k = "Exit" THEN b.ev = "PostRun" ELSE b.ev = AfterDispatch
      [] a.ev = "PostEval" -> b.ev = IterStart
      [] a.ev = "PostRun" -> FALSE

\* C2: the pre-run hook runs once, before anything else; within the loop the
\* callbacks follow each other as pre-read, prompt, read, dispatch, post-eval,
\* pre-read, ... (a nil hook is left out), each once per line; between two
\* consecutive reads the post-eval hook of the first line, the pre-read hook
\* and the Prompter have each run exactly once.
C2_LifecycleOrder ==
    /\ hooks["PreRun"].set =>
          /\ trace # <<>> => trace[1].ev = "PreRun"
          /\ \A i \in 2..Len(trace) : trace[i].ev # "PreRun"
          /\ pc \notin {"idle", "preRun"} => trace # <<>>
    /\ (~hooks["PreRun"].set /\ trace # <<>>) => trace[1].ev = IterStart
    /\ \A i \in 1..(Len(trace) - 1) : Follows(trace[i], trace[i + 1])
    /\ \A i, j \in ReadsOK :
          (i < j /\ ~\E r \in ReadsOK : i < r /\ r < j) =>
             /\ hooks["PostEval"].set =>
                   Cardinality({m \in i..j : trace[m].ev = "PostEval"}) = 1
             /\ hooks["PreRead"].set =>
                   Cardinality({m \in i..j : trace[m].ev = "PreRead"}) = 1
             /\ Cardinality({m \in i..j : trace[m].ev = "Prompt"}) = 1

\* all four hooks are set and a second line has been read and dispatched
C2_Witness ==
    /\ \A n \in HookNames : hooks[n].set
    /\ Cardinality(ReadsOK) = 2
    /\ trace[1].ev = "PreRun"
    /\ Last(trace).ev = "PostEval" /\ Last(trace).k = "nil"

\* C3: after a Handler returned the exit signal, no Matcher, Handler, hook of
\* the loop, Prompter or read follows; Run is at the post-run hook or has
\* returned; when it has returned, the post-run hook (if there is one) has run
\* exactly once, and Run returned nil unless the post-run hook returned an error.
C3_ExitIsClean ==
    \A i \in 1..Len(trace) :
       (trace[i].ev = "Handle" /\ trace[i].k = "Exit") =>
          /\ pc \in {"postRun", "done"}
          /\ \A j \in (i + 1)..Len(trace) : trace[j].ev = "PostRun" /\ j = i + 1
          /\ pc = "postRun" => i = Len(trace)
          /\ pc = "done" =>
                IF hooks["PostRun"].set
                THEN /\ Len(trace) = i + 1
                     /\ trace[i + 1].k = "nil" => retErr = Nil
                ELSE retErr = Nil

\* the Handler asked to exit, the post-run hook ran, Run returned nil
C3_Witness ==
    /\ pc = "done"
    /\ retErr = Nil
    /\ Len(trace) >= 2
    /\ Last(trace) = [ev |-> "PostRun", c |-> 0, k |-> "nil"]
    /\ trace[Len(trace) - 1].ev = "Handle" /\ trace[Len(trace) - 1].k = "Exit"

\* the errors C4 names: any error of a hook, of the Prompter or of the read,
\* a fatal Error of a Matcher, a fatal Error or an unclassified error of a
\* Handler
FatalEvent(e) ==
    \/ (IsHook(e) \/ e.ev \in {"Prompt", "Read"}) /\ e.k # "nil"
    \/ e.ev = "Match" /\ e.k = "Fatal"
    \/ e.ev = "Handle" /\ e.k \in {"Fatal", "Other"}

\* C4: a fatal error is the last thing that happens in a run: Run has
\* returned, nothing was invoked or read after it, and what Run returned is
\* that error (for a fatal Error found inside a wrapping error, the Error
\* itself).
C4_FatalAborts ==
    \A i \in 1..Len(trace) :
       FatalEvent(trace[i]) =>
          /\ i = Len(trace)
          /\ pc = "done"
          /\ retErr # Nil
          /\ retErr.k = lastErr.k
          /\ ~lastErr.w => retErr = lastErr

\* the Matcher of command 1 of 2 failed fatally and Run returned its error
C4_Witness ==
    /\ nCmds = 2
    /\ pc = "done"
    /\ trace # <<>>
    /\ Last(trace) = [ev |-> "Match", c |-> 1, k |-> "Fatal"]
    /\ retErr = NewFatalError

\* the step is a call of callback ev that returned an error of kind k
Called(ev, k) ==
    /\ Len(trace') = Len(trace) + 1
    /\ Last(trace').ev = ev
    /\ Last(trace').k = k

C5_Step ==
    /\ Called("Handle", "Rec") =>
          /\ output' = output \o ErrorString(NewError) \o <<"\n">>
          /\ pc' = "postEval"
          /\ retErr' = Nil
    /\ (pc = "postEval" /\ trace # <<>> /\ Last(trace).ev = "Handle" /\ Last(trace).k = "Rec") =>
          IF hooks["PostEval"].set
          THEN /\ Len(trace') = Len(trace) + 1
               /\ Last(trace').ev = "PostEval"
               /\ Last(trace').k = "nil" => pc' = "preRead"
          ELSE pc' = "preRead" /\ trace' = trace

C5_After ==
    \A i \in 1..Len(trace) :
       (trace[i].ev = "Handle" /\ trace[i].k = "Rec") =>
          /\ i = Len(trace) => pc \in DispatchDonePcs
          /\ i < Len(trace) => trace[i + 1].ev = AfterDispatch

\* C5: the step in which a Handler returns a recoverable Error writes the
\* Error's message and a newline and nothing else, leaves Run running and
\* goes to the post-eval hook; no Matcher or Handler follows for that line;
\* the post-eval hook is the next callback, and after it the next iteration
\* starts.
C5_RecoverableContinues == [][C5_Step /\ C5_After']_vars

\* after a recoverable Error of a Handler, the next line has been read
C5_Witness ==
    \E i \in 1..Len(trace) :
       /\ trace[i].ev = "Handle" /\ trace[i].k = "Rec"
       /\ \E r \in ReadsOK : r > i
       /\ hooks["PostEval"].set

\* C6: a no-match of a Matcher or of a Handler does not end Run: the
\* dispatch goes on with the next command, or with the post-eval hook after
\* the last command.
C6_NoMatchContinues ==
    \A i \in 1..Len(trace) :
       (IsDispatch(trace[i]) /\ trace[i].k = "NoMatch" /\ i = Len(trace)) =>
          /\ pc # "done"
          /\ retErr = Nil
          /\ IF trace[i].c < nCmds
             THEN pc = "match" /\ ci = trace[i].c + 1
             ELSE pc = "postEval"

\* C7: a Handler runs only right after the Matcher of its command returned
\* no error.
C7_HandlerOnlyAfterMatch ==
    \A i \in 1..Len(trace) :
       trace[i].ev = "Handle" =>
          /\ i > 1
          /\ trace[i - 1] = [ev |-> "Match", c |-> trace[i].c, k |-> "nil"]

C8_Step ==
    \A name \in HookNames :
       /\ \A k \in {e.k : e \in PlainErrs \ {Nil}} :
             Called(name, k) =>
                /\ pc' = "done"
                /\ retErr' = lastErr'
                /\ retErr'.k = k
                /\ output' = output
       /\ Called(name, "nil") =>
             /\ output' = output \o hooks[name].text
             /\ retErr' = Nil
             /\ pc' = "done" <=> name = "PostRun"

C8_After ==
    \A i \in 1..Len(trace) :
       (IsHook(trace[i]) /\ trace[i].k # "nil") => i = Len(trace) /\ pc = "done"

\* C8: a hook that returns any error (a non-fatal Error and ErrExit included)
\* makes Run return that error in the same step, without writing the hook's
\* text, and nothing is invoked afterwards; a hook that returns no error has
\* its text appended to the output as it is.
C8_HookErrorsAreFatal == [][C8_Step /\ C8_After']_vars

\* the post-eval hook returned a text and a non-fatal Error: Run returned
\* the Error and the text was not written
C8_Witness ==
    /\ pc = "done"
    /\ trace # <<>>
    /\ Last(trace) = [ev |-> "PostEval", c |-> 0, k |-> "Rec"]
    /\ hooks["PostEval"].text = <<"h">>
    /\ retErr = NewError
    /\ output # <<>> /\ Last(output) # "h"

\* the dispatch of a line in which no command matched
C9_Step ==
    /\ Called("Match", "NoMatch") =>
          /\ output' = output
          /\ retErr' = Nil
          /\ ci = nCmds => pc' = "postEval"
    /\ (Called("Read", "nil") /\ nCmds = 0) =>
          /\ output' = output
          /\ pc' = "postEval"

C9_After ==
    \A i \in 1..Len(trace) :
       \/ trace[i].ev = "Match" /\ trace[i].k = "NoMatch" /\ trace[i].c = nCmds
       \/ trace[i].ev = "Read" /\ trace[i].k = "nil" /\ nCmds = 0
       => /\ i = Len(trace) => pc \in DispatchDonePcs
          /\ i < Len(trace) => trace[i + 1].ev = AfterDispatch
          /\ \A j \in 1..i :
                trace[j].ev = "Handle" => \E r \in ReadsOK : j < r /\ r <= i

\* the end of Run with an empty chain, as the claim has it
C9_EndOriginal ==
    (nCmds = 0 /\ pc = "done") =>
       /\ retErr # Nil
       /\ IsHook(Last(trace)) \/ Last(trace).ev = "Read"

C9_EndAmended ==
    (nCmds = 0 /\ pc = "done") =>
       /\ retErr # Nil
       /\ IsHook(Last(trace)) \/ Last(trace).ev \in {"Read", "Prompt"}

\* C9 as stated: when no command matches a line (the chain may be empty) no
\* Handler runs and nothing is written for it, the post-eval hook runs next
\* and the loop goes on; with an empty chain Run never returns nil and
\* returns only with the error of a hook or of the read.
C9_NoMatchDiscards == [][C9_Step /\ C9_After' /\ C9_EndOriginal']_vars

\* C9 amended: ... returns only with the error of a hook, of the Prompter or
\* of the read.
C9_NoMatchDiscardsAmended == [][C9_Step /\ C9_After' /\ C9_EndAmended']_vars

\* with an empty chain a line was read and discarded, and Run ended with the
\* Prompter's error in the next iteration
C9_Witness ==
    /\ nCmds = 0
    /\ pc = "done"
    /\ Cardinality(ReadsOK) >= 1
    /\ Last(trace).ev = "Prompt"
    /\ retErr # Nil

\* C10: on a History made by NewHistory(S), S >= 1, every Append succeeds
\* and Get(0) right after it returns the line just appended.
C10_GetZeroIsLatest ==
    /\ (hSize >= 1 /\ hOp.name = "Append") =>
          /\ hpc = "ready"
          /\ Get(hist, 0) = [panic |-> FALSE, val |-> hOp.ret]
    /\ (hSize >= 1 /\ hOp.name = "Get" /\ hOp.arg = 0 /\ hLog # <<>>) =>
          /\ hpc = "ready"
          /\ hOp.ret = Last(hLog)

Min(a, b) == IF a < b THEN a ELSE b

\* the lines appended so far can be recalled, newest first
C11_Recall ==
    (hpc = "ready" /\ hSize >= 2) =>
       \A k \in 0..(Min(Len(hLog), hSize - 1) - 1) :
          Get(hist, k) = [panic |-> FALSE, val |-> hLog[Len(hLog) - k]]

\* an Append on a full buffer changes one slot, the one that held the oldest
\* line still retained
C11_Evict ==
    (hpc = "ready" /\ hSize >= 2 /\ hOp'.name = "Append" /\ hLog' # hLog
        /\ Len(hLog) >= hist.Cap) =>
       /\ hpc' = "ready"
       /\ \A i \in 1..Len(hist.Values) :
             i # hist'.Head + 1 => hist'.Values[i] = hist.Values[i]
       /\ hist.Values[hist'.Head + 1] = hLog[Len(hLog) - hist.Cap + 1]
       /\ hist'.Values[hist'.Head + 1] = Last(hLog')

\* C11: for size >= 2 and appends a1..an, Get(k) returns a(n-k) for every
\* 0 <= k < min(n, size-1); an Append on a full buffer overwrites the oldest
\* retained line and leaves every other slot as it was.
C11_RingEvictsOldest == [][C11_Evict /\ C11_Recall']_vars

\* a History of size 3 (two recallable lines) after an Append on the full buffer
C11_Witness ==
    /\ hSize = 3
    /\ hpc = "ready"
    /\ Len(hLog) = 3
    /\ hOp.name = "Append"
    /\ hLog[2] # hLog[3]

\* C12: on a History made by NewHistory(size), size >= 0, the modulus Cap is
\* not zero, the index Append writes is inside Values, and no Append aborts.
C12_AppendNeverFails ==
    (hSize >= 0 /\ hpc # "none") =>
       /\ hpc = "ready"
       /\ hist.Cap # 0
       /\ InRange(hist, AppendHead(hist))

\* C13: with a positive Cap, Get(offset) returns the slot at index
\* (Head - offset) mod Cap, which is also what Get(offset mod Cap) returns,
\* and leaves the History as it was.
C13_GetWraps ==
    (hOp.name = "Get" /\ hist.Cap > 0) =>
       /\ hpc = "ready"
       /\ hOp.ret = hist.Values[((hist.Head - hOp.arg) % hist.Cap) + 1]
       /\ hOp.ret = Get(hist, hOp.arg % hist.Cap).val

\* C19: NewHistory(size) sets Head = size and Cap = size - 1, and the first
\* Append that succeeds writes its line at index 0.
C19_FirstAppendAtZero ==
    /\ (hOp.name = "New" /\ hpc = "ready") =>
          hist.Head = hSize /\ hist.Cap = hSize - 1
    /\ (hOp.name = "Append" /\ Len(hLog) = 1 /\ hpc = "ready") =>
          /\ hist.Head = 0
          /\ hist.Values[1] = hOp.ret

EndsWith(s, t) == Len(s) >= Len(t) /\ SubSeq(s, Len(s) - Len(t) + 1, Len(s)) = t

\* C16: when a Command ends Run with a fatal Error, the last thing written
\* to the output is that Error's message.
C16_FatalMessagePrinted ==
    (pc = "done" /\ trace # <<>> /\ IsDispatch(Last(trace)) /\ Last(trace).k = "Fatal") =>
       \E m \in {ErrorString(lastErr), ErrorString(ReplErr(lastErr))} :
          EndsWith(output, m) \/ EndsWith(output, Fprintln(<<>>, m))

ExitEvents == {i \in 1..Len(trace) : trace[i].ev = "Handle" /\ trace[i].k = "Exit"}

PostRunEvents == {i \in 1..Len(trace) : trace[i].ev = "PostRun"}

\* C20: Run returns nil only if a Handler returned ErrExit and the post-run
\* hook is nil or ran exactly once without error; when Run returns without a
\* Handler having returned ErrExit, it returns an error and the post-run hook
\* has not run.
C20_NilOnlyAfterExit ==
    pc = "done" =>
       /\ retErr = Nil =>
             /\ ExitEvents # {}
             /\ IF hooks["PostRun"].set
                THEN \E i \in PostRunEvents : PostRunEvents = {i} /\ trace[i].k = "nil"
                ELSE PostRunEvents = {}
       /\ ExitEvents = {} => (retErr # Nil /\ PostRunEvents = {})

\* the two ways of leaving: Run returned an error of a Matcher although a
\* post-run hook is installed
C20_WitnessErr ==
    /\ pc = "done"
    /\ hooks["PostRun"].set
    /\ retErr # Nil
    /\ trace # <<>>
    /\ Last(trace).ev = "Match"

\* Run returned nil after an exit with no post-run hook installed
C20_Witness ==
    /\ pc = "done"
    /\ ~hooks["PostRun"].set
    /\ retErr = Nil
    /\ ExitEvents # {}

\* C17: a pattern that compiles is compiled on the first call and never
\* again, and each call returns nil or ErrNoMatch as the pattern matches the
\* input or not; with a pattern that does not compile every call returns a
\* fatal Error, never a match or a no-match.
C17_LazyCompileOnce ==
    IF Compile(rePattern).err
    THEN \A i \in 1..Len(reLog) : reLog[i].ret = NewFatalError /\ Fatal(reLog[i].ret)
    ELSE /\ reCompiles = (IF reLog = <<>> THEN 0 ELSE 1)
         /\ \A i \in 1..Len(reLog) :
               reLog[i].ret = IF MatchString(rePattern, reLog[i].s) THEN Nil ELSE ErrNoMatch

\* a pattern that compiles, called at least twice: once it matched and once
\* it did not
C17_Witness ==
    /\ ~Compile(rePattern).err
    /\ Len(reLog) >= 2
    /\ reCompiles = 1
    /\ \E i, j \in 1..Len(reLog) : reLog[i].ret = Nil /\ reLog[j].ret = ErrNoMatch

\* a pattern that does not compile, called at least twice
C17_WitnessInvalid ==
    /\ Compile(rePattern).err
    /\ Len(reLog) >= 2

\* a read that finds no line terminator returns the end of the stream: Run
\* returns that error and the rest of the input is consumed, not dispatched
C18_ReadStep ==
    (pc = "read" /\ pc' # "read") =>
       IF IndexOf(input, "\n", 1) = 0
       THEN /\ pc' = "done"
            /\ retErr' = EOF
            /\ Last(trace') = Event("Read", 0, EOF)
            /\ ctxInput' = <<>>
            /\ input' = <<>>
       ELSE /\ Last(trace').ev = "Read" /\ Last(trace').k = "nil"
            /\ ctxInput' = TrimSpace(SubSeq(input, 1, IndexOf(input, "\n", 1)))
            /\ input' = SubSeq(input, IndexOf(input, "\n", 1) + 1, Len(input))

\* after the end of the stream nothing runs: no Command, no post-run hook;
\* a Command runs only on a line that a read returned without error
C18_AfterEOF ==
    /\ \A i \in 1..Len(trace) :
          (trace[i].ev = "Read" /\ trace[i].k # "nil") =>
             /\ i = Len(trace)
             /\ pc = "done"
             /\ retErr # Nil
             /\ PostRunEvents = {}
    /\ \A i \in 1..Len(trace) :
          IsDispatch(trace[i]) =>
             \E r \in ReadsOK : r < i /\ \A j \in (r + 1)..(i - 1) : IsDispatch(trace[j])

\* C18: with a Prompter (and hooks, Matchers and Handlers that return) Run
\* on a finite input eventually returns; at the end of the stream Run returns
\* the read error, the post-run hook does not run and the unterminated rest
\* of the input is not dispatched to any Command.
C18_RunReturns ==
    /\ prompter ~> (pc = "done")
    /\ [][C18_ReadStep]_vars
    /\ []C18_AfterEOF

\* Run returned at the end of the stream after dispatching a line, with an
\* unterminated rest consumed by the last read
C18_Witness ==
    /\ pc = "done"
    /\ retErr = EOF
    /\ ReadsOK # {}
    /\ \E i \in 1..Len(trace) : IsDispatch(trace[i])
    /\ hooks["PostRun"].set
    /\ Last(trace) = Event("Read", 0, EOF)

\* C14: once a write to the output sink has failed (hook text, prompt,
\* handler output or the message of a recoverable Error), Run has returned
\* an error.
C14_WriteFailureIsFatal == writeFailed => (pc = "done" /\ retErr # Nil)

\* C15: every hook, Prompter and Handler called by Run gets from
\* Context.Context() the context given to WithContext, and the background
\* context only when WithContext was not called.
C15_ContextIsCallerSupplied ==
    seenCtx \subseteq {IF userCtx = "none" THEN "Background" ELSE userCtx}

TypeOK ==
    /\ pc \in {"idle", "preRun", "preRead", "prompt", "read", "match", "handle",
               "postEval", "postRun", "done", "panic"}
    /\ ci \in 0..nCmds

====
